---- MODULE Spec2Model ----
(***************************************************************************)
(* A model of the mind-map parser (src/unnamed/part_000) and of the emoji  *)
(* classifier it uses (src/src/parser/emojis.js).                          *)
(*                                                                         *)
(* JavaScript strings are sequences of UTF-16 code units.  A code unit of  *)
(* the basic plane is written as the one-character string it prints as; a  *)
(* surrogate code unit is written as its four hexadecimal digits ("D83D"). *)
(* JavaScript objects are records; an absent property is an absent field.  *)
(***************************************************************************)
EXTENDS Integers, Sequences, FiniteSets, TLC

VARIABLES
    argv,        \* [input, output]: process.argv[2], process.argv[3]
    walk,        \* the input collection, in the order walkDir visits it
    pc,          \* position of the main script
    idx,         \* number of files the running pass has visited
    mapsLookup,  \* token -> relative path (part_000:15)
    parsed,      \* output file -> parsedMap handed to fs.writeFile
    writes,      \* output file -> state of its asynchronous write
    dirs,        \* directories that exist under the output location
    exitStatus,  \* "running", "normal" or "fatal"
    fnIn,        \* argument of the function under check (function specs)
    fnOut        \* its result

vars == <<argv, walk, pc, idx, mapsLookup, parsed, writes, dirs, exitStatus, fnIn, fnOut>>

----------------------------------------------------------------------------
(* JavaScript values and strings *)

\* The value undefined: a one-element sequence no string of the model equals.
Undefined == <<"undefined">>

\* The value null (the result of a failed String.prototype.match).
Null == <<"null">>

\* Code units the regular expression class \s matches (and trim removes).
Whitespace == {" ", "\t", "\n"}

\* [\uD800-\uDBFF]: the lead surrogates of the model's alphabet.
HighSurrogate == {"D83C", "D83D", "D83E"}

\* [\uDC00-\uDFFF]: the trail surrogates of the model's alphabet.
LowSurrogate ==
    {"DDFA", "DF10", "DDC2", "DCD6", "DCD5", "DCC4", "DC40", "DD8B", "DDC3",
     "DC19", "DC7E", "DD8C", "DF99", "DCEE", "DDE3", "DFA5", "DD16", "DE00"}

\* ToBoolean of a string-or-undefined value.
Truthy(v) == v # Undefined /\ v # Null /\ v # <<>>

\* A property read obj[key]: undefined when the object has no such property.
Get(obj, key) == IF key \in DOMAIN obj THEN obj[key] ELSE Undefined

SetMin(S) == CHOOSE x \in S : \A y \in S : x <= y

\* String.prototype.indexOf, 1-based; 0 when pat does not occur in s.
IndexOf(s, pat) ==
    LET hits == {i \in 1..(Len(s) - Len(pat) + 1) : SubSeq(s, i, i + Len(pat) - 1) = pat}
    IN  IF hits = {} THEN 0 ELSE SetMin(hits)

\* String.prototype.replace with a string pattern: the first occurrence only.
Replace(s, pat, rep) ==
    LET i == IndexOf(s, pat)
    IN  IF i = 0 THEN s
        ELSE SubSeq(s, 1, i - 1) \o rep \o SubSeq(s, i + Len(pat), Len(s))

\* The code units of s at the positions in keep, in order.
RECURSIVE Select(_, _, _, _)
Select(s, keep, lo, hi) ==
    IF lo > hi THEN <<>>
    ELSE IF lo = hi THEN (IF lo \in keep THEN <<s[lo]>> ELSE <<>>)
    ELSE Select(s, keep, lo, (lo + hi) \div 2) \o Select(s, keep, ((lo + hi) \div 2) + 1, hi)

TrimStart(s) ==
    LET ink == {i \in 1..Len(s) : s[i] \notin Whitespace}
    IN  IF ink = {} THEN <<>> ELSE SubSeq(s, SetMin(ink), Len(s))

TrimEnd(s) ==
    LET ink == {i \in 1..Len(s) : s[i] \notin Whitespace}
    IN  IF ink = {} THEN <<>> ELSE SubSeq(s, 1, CHOOSE i \in ink : \A j \in ink : j <= i)

\* String.prototype.trim.
Trim(s) == TrimEnd(TrimStart(s))

\* Object.assign(target, source): source's own properties win.
ObjectAssign(target, source) ==
    [k \in (DOMAIN target) \cup (DOMAIN source) |->
        IF k \in DOMAIN source THEN source[k] ELSE target[k]]

----------------------------------------------------------------------------
(* emojis.js *)

\* matchEmojis = /([\uD800-\uDBFF][\uDC00-\uDFFF])/g : whether a match starts at i.
EmojiAt(s, i) ==
    /\ i + 1 <= Len(s)
    /\ s[i] \in HighSurrogate
    /\ s[i + 1] \in LowSurrogate

RECURSIVE SortedSeq(_)
SortedSeq(S) == IF S = {} THEN <<>> ELSE <<SetMin(S)>> \o SortedSeq(S \ {SetMin(S)})

\* The matches of matchEmojis in s, left to right.  Two matches never
\* overlap: the second unit of one is a trail surrogate, never a lead.
EmojiScan(s) ==
    LET starts == SortedSeq({i \in 1..Len(s) : EmojiAt(s, i)})
    IN  [n \in 1..Len(starts) |-> SubSeq(s, starts[n], starts[n] + 1)]

\* text.match(matchEmojis): Null, or the matches.
MatchEmojis(s) == IF EmojiScan(s) = <<>> THEN Null ELSE EmojiScan(s)

\* text.replace(matchEmojis, ''): every match removed, in one pass.
ReplaceEmojis(s) ==
    Select(s, {i \in 1..Len(s) : ~EmojiAt(s, i) /\ ~(i > 1 /\ EmojiAt(s, i - 1))}, 1, Len(s))

emojiToCategory(emoji) ==
    CASE emoji = <<"D83D", "DDFA">> -> "mindmap"
      [] emoji = <<"D83C", "DF10">> -> "wiki"
      [] emoji = <<"D83D", "DDC2">> -> "stack exchange"
      [] emoji = <<"D83D", "DCD6">> -> "free book"
      [] emoji = <<"D83D", "DCD5">> -> "non-free book"
      [] emoji = <<"D83D", "DCC4">> -> "paper"
      [] emoji = <<"D83D", "DC40">> -> "video"
      [] emoji = <<"D83D", "DD8B">> -> "article"
      [] emoji = <<"D83D", "DDC3">> -> "blog"
      [] emoji = <<"D83D", "DC19">> -> "github"
      [] emoji = <<"D83D", "DC7E">> -> "interactive"
      [] emoji = <<"D83D", "DD8C">> -> "image"
      [] emoji = <<"D83C", "DF99">> -> "podcast"
      [] emoji = <<"D83D", "DCEE">> -> "newsletter"
      [] emoji = <<"D83D", "DDE3">> -> "chat"
      [] emoji = <<"D83C", "DFA5">> -> "youtube"
      [] emoji = <<"D83E", "DD16">> -> "reddit"
      [] OTHER -> ""

----------------------------------------------------------------------------
(* regex.js: getText and getURL *)

\* Rich text is markup: tags between "<" and ">", a link as <a href="...">.
Href == <<"<", "a", " ", "h", "r", "e", "f", "=", "\"">>

\* Whether position i of html lies inside a tag: after a "<" with no ">" since.
InTag(html, i) ==
    \E j \in 1..(i - 1) : html[j] = "<" /\ \A k \in (j + 1)..(i - 1) : html[k] # ">"

\* html without its tags.
StripTags(html) ==
    Select(html, {i \in 1..Len(html) : html[i] # "<" /\ ~InTag(html, i)}, 1, Len(html))

\* The plain text of a rich-text field: every tag removed.
getText(html) == StripTags(html)

\* The target of the first hyperlink of a rich-text field, '' when it has none.
getURL(html) ==
    LET i == IndexOf(html, Href)
        rest == SubSeq(html, i + Len(Href), Len(html))
        q == IndexOf(rest, <<"\"">>)
    IN  IF i = 0 \/ q = 0 THEN <<>> ELSE SubSeq(rest, 1, q - 1)

----------------------------------------------------------------------------
(* part_000: parseNode, getSubnodes, parseSubnode, parseConn *)

\* The length of a map token in an internal URL: \S{40}.
TokenLen == 40

SlashId == <<"/", "i", "d", "/">>

Boilerplate ==
    <<"i", "f", " ", "y", "o", "u", " ", "t", "h", "i", "n", "k", " ", "t", "h",
      "i", "s", " ", "c", "a", "n", " ", "b", "e", " ", "i", "m", "p", "r", "o",
      "v", "e", "d", " ", "i", "n", " ", "a", "n", "y", " ", "w", "a", "y", " ",
      " ", "p", "l", "e", "a", "s", "e", " ", "s", "a", "y">>

\* url.match(/\/id\/(\S{40})/): the captured group of the leftmost match, or Null.
MatchInternalURL(url) ==
    LET hits == {i \in 1..Len(url) :
                    /\ i + Len(SlashId) - 1 + TokenLen <= Len(url)
                    /\ SubSeq(url, i, i + Len(SlashId) - 1) = SlashId
                    /\ \A j \in 1..TokenLen : url[i + Len(SlashId) - 1 + j] \notin Whitespace}
    IN  IF hits = {} THEN Null
        ELSE SubSeq(url, SetMin(hits) + Len(SlashId), SetMin(hits) + Len(SlashId) - 1 + TokenLen)

\* Lines 80-83 with the URL rewritten verbatim: no lookup of the token.
ResolveURL_Verbatim(url, lookupTable) == url

\* Lines 80-83: an internal URL becomes the path stored under its token.
ResolveURL(url, lookupTable) ==
    LET matchInternalURL == MatchInternalURL(url)
    IN  IF matchInternalURL # Null THEN Get(lookupTable, matchInternalURL) ELSE url

\* Lines 85-87: the boilerplate phrase is cut from a note.
TrimNote(note) == IF Truthy(note) THEN Replace(note, Boilerplate, <<>>) ELSE note

\* Lines 89-94 with a category set only for an emoji the table knows.
Categorize_RecognizedOnly(parsedNode) ==
    LET match == MatchEmojis(parsedNode.text)
    IN  IF match # Null /\ emojiToCategory(match[1]) # ""
        THEN [parsedNode EXCEPT !.text = Trim(ReplaceEmojis(parsedNode.text))]
                 @@ [category |-> emojiToCategory(match[1])]
        ELSE parsedNode

\* Lines 89-94: the first emoji of the text gives the category; all are stripped.
Categorize(parsedNode) ==
    LET match == MatchEmojis(parsedNode.text)
    IN  IF match # Null
        THEN [parsedNode EXCEPT !.text = Trim(ReplaceEmojis(parsedNode.text))]
                 @@ [category |-> emojiToCategory(match[1])]
        ELSE parsedNode

parseNode(node, lookupTable) ==
    Categorize([text |-> getText(node.title.text),
                note |-> TrimNote(IF "note" \in DOMAIN node
                                  THEN getText(node.note.text) ELSE Undefined),
                url |-> ResolveURL(getURL(node.title.text), lookupTable),
                fx |-> node.location.x,
                fy |-> node.location.y])

\* getSubnodesR handing its own parent down instead of the subnode's text.
RECURSIVE getSubnodesR_SameParent(_, _, _)
getSubnodesR_SameParent(subnodes, parent, lookupTable) ==
    IF subnodes = <<>> THEN <<>>
    ELSE LET subnode == Head(subnodes)
         IN  <<ObjectAssign([parent |-> parent], subnode)>>
                 \o getSubnodesR_SameParent(subnode.nodes, parent, lookupTable)
                 \o getSubnodesR_SameParent(Tail(subnodes), parent, lookupTable)

\* getSubnodesR pushing a subnode's descendants before the subnode.
RECURSIVE getSubnodesR_PostOrder(_, _, _)
getSubnodesR_PostOrder(subnodes, parent, lookupTable) ==
    IF subnodes = <<>> THEN <<>>
    ELSE LET subnode == Head(subnodes)
         IN  getSubnodesR_PostOrder(subnode.nodes, parseNode(subnode, lookupTable).text, lookupTable)
                 \o <<ObjectAssign([parent |-> parent], subnode)>>
                 \o getSubnodesR_PostOrder(Tail(subnodes), parent, lookupTable)

RECURSIVE getSubnodesR(_, _, _)
getSubnodesR(subnodes, parent, lookupTable) ==
    IF subnodes = <<>> THEN <<>>
    ELSE LET subnode == Head(subnodes)
         IN  <<ObjectAssign([parent |-> parent], subnode)>>
                 \o getSubnodesR(subnode.nodes, parseNode(subnode, lookupTable).text, lookupTable)
                 \o getSubnodesR(Tail(subnodes), parent, lookupTable)

RECURSIVE getSubnodes(_, _)
getSubnodes(nodes, lookupTable) ==
    IF nodes = <<>> THEN <<>>
    ELSE getSubnodesR(Head(nodes).nodes, parseNode(Head(nodes), lookupTable).text, lookupTable)
             \o getSubnodes(Tail(nodes), lookupTable)

parseSubnode(subnode, lookupTable) ==
    LET parsedSubnode == parseNode(subnode, lookupTable)
        color == IF /\ "shapeStyle" \in DOMAIN subnode
                    /\ "borderStrokeStyle" \in DOMAIN subnode.shapeStyle
                 THEN subnode.shapeStyle.borderStrokeStyle.color
                 ELSE Undefined
    IN  parsedSubnode @@ [color |-> color, parent |-> subnode.parent]

\* parseConn giving every connection a text, '' without a title.
parseConn_AlwaysText(conn, lookup) ==
    [source |-> Get(lookup, conn.startNodeID),
     target |-> Get(lookup, conn.endNodeID),
     curve |-> [x |-> conn.wayPointOffset.x, y |-> conn.wayPointOffset.y],
     text |-> IF "title" \in DOMAIN conn /\ Truthy(Get(conn.title, "text"))
              THEN getText(conn.title.text) ELSE <<>>]

parseConn(conn, lookup) ==
    LET parsedConn == [source |-> Get(lookup, conn.startNodeID),
                       target |-> Get(lookup, conn.endNodeID),
                       curve |-> [x |-> conn.wayPointOffset.x, y |-> conn.wayPointOffset.y]]
    IN  IF "title" \in DOMAIN conn /\ Truthy(Get(conn.title, "text"))
        THEN parsedConn @@ [text |-> getText(conn.title.text)]
        ELSE parsedConn

----------------------------------------------------------------------------
(* The file system and the paths of part_000 *)

\* process.cwd().
Cwd == <<"/", "w">>

CollapseSlashes(p) ==
    Select(p, {i \in 1..Len(p) : ~(p[i] = "/" /\ i < Len(p) /\ p[i + 1] = "/")}, 1, Len(p))

RECURSIVE StripTrailingSlash(_)
StripTrailingSlash(p) ==
    IF Len(p) > 1 /\ p[Len(p)] = "/" THEN StripTrailingSlash(SubSeq(p, 1, Len(p) - 1)) ELSE p

\* path.resolve('./', p): absolute, without a trailing separator.
PathResolve(p) ==
    StripTrailingSlash(CollapseSlashes(IF p # <<>> /\ Head(p) = "/" THEN p ELSE Cwd \o <<"/">> \o p))

\* path.join(a, b).
PathJoin(a, b) == StripTrailingSlash(CollapseSlashes(a \o <<"/">> \o b))

\* path.dirname(p).
Dirname(p) ==
    LET slashes == {i \in 1..Len(p) : p[i] = "/"}
        last == CHOOSE i \in slashes : \A j \in slashes : j <= i
    IN  IF slashes = {} THEN <<".">>
        ELSE IF last = 1 THEN <<"/">>
        ELSE SubSeq(p, 1, last - 1)

\* mkdirs(dirname) (lines 26-34): the directories that exist afterwards.
RECURSIVE mkdirs(_, _)
mkdirs(dirname, existing) ==
    LET parentDir == Dirname(dirname)
    IN  (IF parentDir \notin existing THEN mkdirs(parentDir, existing) ELSE existing)
            \cup {dirname}

Sentinel == <<"/", "l", "e", "a", "r", "n", "-", "a", "n", "y", "t", "h", "i", "n", "g">>

DotJson == <<".", "j", "s", "o", "n">>

\* The absolute path walkDir hands to its callback (line 42).
AbsPath(file) == PathResolve(argv.input) \o file.rel

\* Lines 178-183 without the test for the root document.
RelativeFilePath_AlwaysStrip(filename, input) ==
    Replace(Replace(Replace(filename, PathResolve(input), <<>>), DotJson, <<>>), Sentinel, <<>>)

\* Lines 178-183: the relative path pass 1 stores for a file.
RelativeFilePath(filename, input) ==
    LET inputBasePath == PathResolve(input)
        relativeFilePath == Replace(Replace(filename, inputBasePath, <<>>), DotJson, <<>>)
    IN  IF relativeFilePath # Sentinel
        THEN Replace(relativeFilePath, Sentinel, <<>>)
        ELSE relativeFilePath

\* Lines 205-206: where pass 2 writes a file's parsed map.
OutputFile(filename, input, output) ==
    PathJoin(output, Replace(filename, PathResolve(input), <<>>))

\* obj[key] = value.
Put(obj, key, value) ==
    [k \in (DOMAIN obj) \cup {key} |-> IF k = key THEN value ELSE obj[k]]

\* Line 197 over a list of nodes: nodesLookup[node.id] = parsedNode.text.
RECURSIVE FillLookup(_, _)
FillLookup(nodes, lookupTable) ==
    IF nodes = <<>> THEN <<>>
    ELSE LET n == nodes[Len(nodes)]
         IN  Put(FillLookup(SubSeq(nodes, 1, Len(nodes) - 1), lookupTable),
                 n.id, parseNode(n, lookupTable).text)

\* The id -> text table filled from the subnodes as well.
NodesLookup_Deep(nodes, lookupTable) ==
    FillLookup(nodes \o getSubnodes(nodes, lookupTable), lookupTable)

\* Lines 195-199: the id -> text table after the top-level nodes are parsed.
NodesLookup(nodes, lookupTable) == FillLookup(nodes, lookupTable)

\* Lines 189-202: the parsed map of one document.
ParseMap(map, lookupTable) ==
    LET nodesLookup == NodesLookup(map.nodes, lookupTable)
        flat == getSubnodes(map.nodes, lookupTable)
    IN  [title |-> map.title,
         nodes |-> [i \in 1..Len(map.nodes) |-> parseNode(map.nodes[i], lookupTable)],
         subnodes |-> [i \in 1..Len(flat) |-> parseSubnode(flat[i], lookupTable)],
         connections |-> [i \in 1..Len(map.connections) |->
                             parseConn(map.connections[i], nodesLookup)]]

----------------------------------------------------------------------------
(* Inputs *)

\* The largest number of documents in the input collection.
MaxDocs == 2

P(s) == <<"<", "p", ">">> \o s \o <<"<", "/", "p", ">">>

Link(url, s) == Href \o url \o <<"\"", ">">> \o s \o <<"<", "/", "a", ">">>

Token(c) == [i \in 1..TokenLen |-> c]

\* Tokens of documents, and one no document has.
Tokens == {Token("a"), Token("b")}

UnknownToken == Token("c")

InternalURL(tok) == <<"h", ":">> \o SlashId \o tok

RawNode(id, text, x, y, kids) ==
    [id |-> id, title |-> [text |-> text], location |-> [x |-> x, y |-> y], nodes |-> kids]

RawConn(start, end, x, y) ==
    [startNodeID |-> start, endNodeID |-> end, wayPointOffset |-> [x |-> x, y |-> y]]

Video == <<"D83D", "DC40">>

\* Three document bodies: nested nodes with internal links, connections between
\* top-level nodes, to a subnode and to an id no node has.
Contents ==
    { [nodes |-> <<RawNode("n1", Link(InternalURL(Token("a")), <<"x">>), 1, 2,
                       <<RawNode("n2", Link(InternalURL(Token("b")), Video \o <<" ", "y">>), 3, 4,
                             <<RawNode("n4", P(<<"u">>), 7, 8, <<>>)>>)>>),
                   RawNode("n3", P(<<"z">>), 5, 6, <<>>)>>,
       connections |-> <<RawConn("n1", "n3", 1, -1) @@ [title |-> [text |-> P(<<"t">>)]],
                         RawConn("n2", "n1", 0, 2),
                         RawConn("n3", "n9", 2, 0) @@ [title |-> [text |-> <<>>]]>>],
      [nodes |-> <<RawNode("n9", Link(InternalURL(UnknownToken), <<"q">>), 0, 0, <<>>),
                   RawNode("n1", Link(<<"h", ":", "/", "i", "d", "/", "a">>, <<"r">>), 1, 1,
                       <<RawNode("n3", Link(InternalURL(Token("a")) \o <<"a">>, <<"s">>), 2, 2, <<>>)>>)>>,
       connections |-> <<RawConn("n9", "n1", 3, 3), RawConn("n3", "n2", 4, 4)>>],
      [nodes |-> <<>>, connections |-> <<>>] }

DocChoices ==
    {[token |-> t, title |-> <<"m">>, nodes |-> c.nodes, connections |-> c.connections] :
        t \in Tokens, c \in Contents}

\* The files of the input directory, by their path below it, in readdir order.
RelNames ==
    << <<"/", "a">> \o DotJson,
       <<"/", "a">> \o Sentinel \o DotJson,
       Sentinel \o DotJson,
       Sentinel \o <<"/", "a">> \o DotJson >>

\* Every collection of at most MaxDocs files, each holding one document.
Walks ==
    UNION { { [k \in 1..Cardinality(S) |-> [rel |-> RelNames[SortedSeq(S)[k]], map |-> m[k]]] :
                m \in [1..Cardinality(S) -> DocChoices] } :
            S \in {T \in SUBSET (1..Len(RelNames)) : Cardinality(T) <= MaxDocs} }

InputArgs == {Undefined, <<"/", "i">>, <<"i", "/">>}

OutputArgs == {Undefined, <<"/", "o">>}

----------------------------------------------------------------------------
(* The program *)

Init ==
    /\ argv \in [input : InputArgs, output : OutputArgs]
    /\ walk \in Walks
    /\ pc = "main"
    /\ idx = 0
    /\ mapsLookup = <<>>
    /\ parsed = <<>>
    /\ writes = <<>>
    /\ dirs = {<<"/">>}
    /\ exitStatus = "running"
    /\ fnIn = Null
    /\ fnOut = Null

\* Lines 17-21 testing the input argument alone.
CheckArgs_InputOnly ==
    /\ pc = "main"
    /\ IF argv.input = Undefined
       THEN pc' = "exited" /\ exitStatus' = "normal"
       ELSE pc' = "pass1" /\ exitStatus' = exitStatus
    /\ UNCHANGED <<argv, walk, idx, mapsLookup, parsed, writes, dirs, fnIn, fnOut>>

\* Lines 17-21: without both arguments the process exits at once.
CheckArgs ==
    /\ pc = "main"
    /\ IF argv.input = Undefined \/ argv.output = Undefined
       THEN pc' = "exited" /\ exitStatus' = "normal"
       ELSE pc' = "pass1" /\ exitStatus' = exitStatus
    /\ UNCHANGED <<argv, walk, idx, mapsLookup, parsed, writes, dirs, fnIn, fnOut>>

\* Lines 177-186: the callback of the first walk, on the next file.
Pass1Callback ==
    /\ pc = "pass1"
    /\ idx < Len(walk)
    /\ LET file == walk[idx + 1]
       IN  mapsLookup' = Put(mapsLookup, file.map.token,
                             RelativeFilePath(AbsPath(file), argv.input))
    /\ idx' = idx + 1
    /\ UNCHANGED <<argv, walk, pc, parsed, writes, dirs, exitStatus, fnIn, fnOut>>

\* A first walk that hands control on before it has visited every file.
Pass1Return_Async ==
    /\ pc = "pass1"
    /\ pc' = "pass2"
    /\ idx' = 0
    /\ UNCHANGED <<argv, walk, mapsLookup, parsed, writes, dirs, exitStatus, fnIn, fnOut>>

\* The first walkDir call returns; the second begins.
Pass1Return ==
    /\ pc = "pass1"
    /\ idx = Len(walk)
    /\ pc' = "pass2"
    /\ idx' = 0
    /\ UNCHANGED <<argv, walk, mapsLookup, parsed, writes, dirs, exitStatus, fnIn, fnOut>>

\* Lines 188-220: the callback of the second walk, on the next file.
Pass2Callback ==
    /\ pc = "pass2"
    /\ idx < Len(walk)
    /\ LET file == walk[idx + 1]
           outputFile == OutputFile(AbsPath(file), argv.input, argv.output)
           outputPath == Dirname(outputFile)
       IN  /\ parsed' = Put(parsed, outputFile, ParseMap(file.map, mapsLookup))
           /\ dirs' = IF outputPath \notin dirs THEN mkdirs(outputPath, dirs) ELSE dirs
           /\ writes' = Put(writes, outputFile, "pending")
    /\ idx' = idx + 1
    /\ UNCHANGED <<argv, walk, pc, mapsLookup, exitStatus, fnIn, fnOut>>

\* The second walkDir call returns: the script ends and the event loop runs.
Pass2Return ==
    /\ pc = "pass2"
    /\ idx = Len(walk)
    /\ pc' = "eventloop"
    /\ UNCHANGED <<argv, walk, idx, mapsLookup, parsed, writes, dirs, exitStatus, fnIn, fnOut>>

\* Lines 215-219 with the error dropped instead of thrown.
WriteCallback_Swallow(outputFile, err) ==
    /\ pc = "eventloop"
    /\ writes[outputFile] = "pending"
    /\ writes' = [writes EXCEPT ![outputFile] = IF err THEN "failed" ELSE "written"]
    /\ UNCHANGED <<argv, walk, pc, idx, mapsLookup, parsed, dirs, exitStatus, fnIn, fnOut>>

\* Lines 215-219: the callback of a finished write; an error is thrown.
WriteCallback(outputFile, err) ==
    /\ pc = "eventloop"
    /\ writes[outputFile] = "pending"
    /\ IF err
       THEN /\ writes' = [writes EXCEPT ![outputFile] = "failed"]
            /\ pc' = "exited"
            /\ exitStatus' = "fatal"
       ELSE /\ writes' = [writes EXCEPT ![outputFile] = "written"]
            /\ UNCHANGED <<pc, exitStatus>>
    /\ UNCHANGED <<argv, walk, idx, mapsLookup, parsed, dirs, fnIn, fnOut>>

\* The event loop is empty: the process exits.
Exit ==
    /\ pc = "eventloop"
    /\ \A f \in DOMAIN writes : writes[f] # "pending"
    /\ pc' = "exited"
    /\ exitStatus' = "normal"
    /\ UNCHANGED <<argv, walk, idx, mapsLookup, parsed, writes, dirs, fnIn, fnOut>>

Next ==
    \/ CheckArgs
    \/ Pass1Callback
    \/ Pass1Return
    \/ Pass2Callback
    \/ Pass2Return
    \/ \E f \in DOMAIN writes, err \in BOOLEAN : WriteCallback(f, err)
    \/ Exit

Spec == Init /\ [][Next]_vars

----------------------------------------------------------------------------
(* Claims about the whole program (Spec) *)

ArgsMissing == argv.input = Undefined \/ argv.output = Undefined

\* The output file of the k-th file of the walk.
OutputFileOf(k) == OutputFile(AbsPath(walk[k]), argv.input, argv.output)

\* The walk position of the file written to outputFile.
FileAt(outputFile) == CHOOSE k \in 1..Len(walk) : OutputFileOf(k) = outputFile

AllTokensStored == \A k \in 1..Len(walk) : walk[k].map.token \in DOMAIN mapsLookup

\* C1: once pass 2 has begun (and so whenever a document is normalized) the
\* link table holds the token of every document of the collection, and no
\* step of pass 2 changes the table.
C1_TableBuiltBeforePass2 ==
    /\ []((pc = "pass2" \/ parsed # <<>>) => AllTokensStored)
    /\ [][pc = "pass2" => mapsLookup' = mapsLookup]_vars

\* C1 witness: pass 2 has normalized the first of two documents with different tokens.
C1_Witness ==
    /\ pc = "pass2"
    /\ idx = 1
    /\ Len(walk) = 2
    /\ walk[1].map.token # walk[2].map.token
    /\ parsed # <<>>

\* The relative path of the k-th file: its place below the input directory
\* without the ".json" ending, and without one occurrence of the sentinel
\* unless it is the sentinel.
IsRelativePathOf(path, k) ==
    LET abs == AbsPath(walk[k])
        base == PathResolve(argv.input)
        r == SubSeq(abs, Len(base) + 1, Len(abs) - Len(DotJson))
        occurs == {i \in 1..(Len(r) - Len(Sentinel) + 1) :
                      SubSeq(r, i, i + Len(Sentinel) - 1) = Sentinel}
    IN  /\ SubSeq(abs, 1, Len(base)) = base
        /\ SubSeq(abs, Len(abs) - Len(DotJson) + 1, Len(abs)) = DotJson
        /\ IF r = Sentinel \/ occurs = {}
           THEN path = r
           ELSE \E i \in occurs :
                    path = SubSeq(r, 1, i - 1) \o SubSeq(r, i + Len(Sentinel), Len(r))

\* What C2 says the url of a raw node becomes.
UrlAsClaimed(url, node) ==
    LET extracted == getURL(node.title.text)
        starts == {i \in 1..Len(extracted) :
                      /\ i + Len(SlashId) + TokenLen - 1 <= Len(extracted)
                      /\ SubSeq(extracted, i, i + Len(SlashId) - 1) = SlashId
                      /\ \A j \in (i + Len(SlashId))..(i + Len(SlashId) + TokenLen - 1) :
                             extracted[j] \notin Whitespace}
        at == SetMin(starts) + Len(SlashId)
        token == SubSeq(extracted, at, at + TokenLen - 1)
        holders == {k \in 1..Len(walk) : walk[k].map.token = token}
    IN  IF starts = {} THEN url = extracted
        ELSE IF holders = {} THEN url = Undefined
        ELSE \E k \in holders : IsRelativePathOf(url, k)

\* C2: in every document pass 2 has normalized, the url of a node or subnode whose
\* extracted URL holds "/id/" and a 40-character token is the relative path of
\* a document with that token, undefined when no document has it; any other
\* URL is the extracted one.
C2_InternalLinksResolved ==
    pc = "pass2" => \A f \in DOMAIN parsed :
        LET map == walk[FileAt(f)].map
            flat == getSubnodes(map.nodes, mapsLookup)
        IN  /\ \A i \in 1..Len(map.nodes) : UrlAsClaimed(parsed[f].nodes[i].url, map.nodes[i])
            /\ \A i \in 1..Len(flat) : UrlAsClaimed(parsed[f].subnodes[i].url, flat[i])

\* C2 witness: a normalized node links to another file of the collection, and
\* the token of a node of that file belongs to no document.
C2_Witness ==
    /\ \E g \in DOMAIN parsed :
          \E i \in 1..Len(parsed[g].nodes) :
              /\ MatchInternalURL(getURL(walk[FileAt(g)].map.nodes[i].title.text)) = UnknownToken
              /\ parsed[g].nodes[i].url = Undefined
    /\ \E f \in DOMAIN parsed :
        /\ \E i \in 1..Len(parsed[f].nodes), k \in 1..Len(walk) :
              /\ k # FileAt(f)
              /\ MatchInternalURL(getURL(walk[FileAt(f)].map.nodes[i].title.text))
                     = walk[k].map.token
              /\ IsRelativePathOf(parsed[f].nodes[i].url, k)
              /\ Len(parsed[f].nodes[i].url) > 0

\* The text C7 says an id resolves to in a document.
TextOfTopLevel(map, id) ==
    LET tops == {i \in 1..Len(map.nodes) : map.nodes[i].id = id}
    IN  IF tops = {} THEN Undefined
        ELSE parseNode(map.nodes[CHOOSE i \in tops : TRUE], mapsLookup).text

\* C7: in every document pass 2 has normalized, the source and target of
\* every connection are the normalized texts of the top-level nodes of the
\* same document with the ids startNodeID and endNodeID, and undefined for
\* the id of a subnode or of no node.
C7_ConnectionsResolveTopLevel ==
    pc = "pass2" => \A f \in DOMAIN parsed :
        LET map == walk[FileAt(f)].map
        IN  \A j \in 1..Len(map.connections) :
                /\ parsed[f].connections[j].source
                       = TextOfTopLevel(map, map.connections[j].startNodeID)
                /\ parsed[f].connections[j].target
                       = TextOfTopLevel(map, map.connections[j].endNodeID)

\* C7 witness: a connection between two top-level nodes, and one that starts at a subnode.
C7_Witness ==
    \E f \in DOMAIN parsed :
        LET map == walk[FileAt(f)].map
            subIds == {getSubnodes(map.nodes, mapsLookup)[i].id :
                          i \in 1..Len(getSubnodes(map.nodes, mapsLookup))}
        IN  /\ \E j \in 1..Len(map.connections) :
                  /\ parsed[f].connections[j].source # Undefined
                  /\ parsed[f].connections[j].target # Undefined
            /\ \E j \in 1..Len(map.connections) :
                  /\ map.connections[j].startNodeID \in subIds
                  /\ parsed[f].connections[j].source = Undefined

\* C8: with the input or the output argument missing nothing is processed: no
\* file is visited, the link table stays empty, nothing is normalized, written
\* or created.
C8_NoProcessingWithoutArgs ==
    ArgsMissing =>
        /\ pc \in {"main", "exited"}
        /\ idx = 0
        /\ mapsLookup = <<>>
        /\ parsed = <<>>
        /\ writes = <<>>
        /\ dirs = {<<"/">>}
        /\ exitStatus \in {"running", "normal"}

\* C8 witness: the process has exited with only the output argument missing
\* and a collection that holds documents.
C8_Witness ==
    /\ pc = "exited"
    /\ argv.input # Undefined
    /\ argv.output = Undefined
    /\ Len(walk) > 0

\* C9: pass 2 dispatches every write while the earlier ones are still
\* pending; the process exits normally only with every write completed, and
\* a failed write ends it fatally.
C9_WritesObservedBeforeExit ==
    /\ pc = "pass2" => \A f \in DOMAIN writes : writes[f] = "pending"
    /\ pc = "pass2" => Cardinality(DOMAIN writes) = idx
    /\ exitStatus = "normal" => \A f \in DOMAIN writes : writes[f] = "written"
    /\ (\E f \in DOMAIN writes : writes[f] = "failed") => exitStatus = "fatal"

\* C9 witness: a normal exit after two writes.
C9_Witness ==
    /\ exitStatus = "normal"
    /\ Cardinality(DOMAIN writes) = 2

\* C10: the path pass 1 stores under a document's token is the file's place
\* below the input directory without ".json", with the sentinel removed unless
\* the path is the sentinel itself.
C10_RelativePathStored ==
    (pc = "pass1" /\ idx > 0) =>
        IsRelativePathOf(mapsLookup[walk[idx].map.token], idx)

\* C10 witness: pass 1 has stored the root document unchanged after a file
\* whose path lost the sentinel.
C10_Witness ==
    /\ pc = "pass1"
    /\ idx = 2
    /\ mapsLookup[walk[2].map.token] = Sentinel
    /\ walk[1].rel = <<"/", "a">> \o Sentinel \o DotJson
    /\ walk[1].map.token # walk[2].map.token
    /\ mapsLookup[walk[1].map.token] = <<"/", "a">>

----------------------------------------------------------------------------
(* Function specifications: one call of a function on an input drawn at Init *)

\* The program at rest, about to call the function under check.
AtCall ==
    /\ argv = [input |-> Undefined, output |-> Undefined]
    /\ walk = <<>>
    /\ pc = "call"
    /\ idx = 0
    /\ mapsLookup = Put(<<>>, Token("a"), <<"/", "p">>)
    /\ parsed = <<>>
    /\ writes = <<>>
    /\ dirs = {<<"/">>}
    /\ exitStatus = "running"
    /\ fnOut = Null

Return(result) ==
    /\ pc = "call"
    /\ pc' = "returned"
    /\ fnOut' = result
    /\ UNCHANGED <<argv, walk, idx, mapsLookup, parsed, writes, dirs, exitStatus, fnIn>>

(* getSubnodes and parseSubnode *)

\* The largest number of nodes in a document's node tree.
MaxNodes == 7

\* The nodes of a tree are numbered in pre-order from 1; par[k] is the node
\* that holds node k as a child, 0 for a top-level node.
RECURSIVE AncestorsOrSelf(_, _)
AncestorsOrSelf(par, k) == IF k = 0 THEN {} ELSE {k} \cup AncestorsOrSelf(par, par[k])

RECURSIVE ParentArrays(_)
ParentArrays(n) ==
    IF n = 0 THEN {<<>>}
    ELSE {q \in {Append(par, a) : par \in ParentArrays(n - 1), a \in 0..(n - 1)} :
             q[n] \in {0} \cup AncestorsOrSelf(q, n - 1)}

Letters == <<"a", "b", "c", "d", "e", "f", "g", "h", "i", "j">>

\* The plain text of node k.
PlainText(k) == <<Letters[((k - 1) % Len(Letters)) + 1]>>

Globe == <<"D83C", "DF10">>

\* The rich-text title of node k: a link, a marked paragraph or a marked link.
TitleOf(k) ==
    CASE k % 3 = 0 -> P(Video \o <<" ">> \o PlainText(k))
      [] k % 3 = 1 -> Link(<<"h">>, PlainText(k))
      [] OTHER -> Link(InternalURL(Token("a")), PlainText(k) \o <<" ">> \o Globe)

RECURSIVE BuildNode(_, _)
BuildNode(par, k) ==
    LET kids == SortedSeq({j \in 1..Len(par) : par[j] = k})
        node == RawNode(k, TitleOf(k), k, 0 - k, [i \in 1..Len(kids) |-> BuildNode(par, kids[i])])
        noted == IF k % 2 = 0 THEN node @@ [note |-> [text |-> P(<<"n">>)]] ELSE node
    IN  IF k % 3 = 0
        THEN noted @@ [shapeStyle |-> [borderStrokeStyle |-> [color |-> "#fff"]]]
        ELSE noted

BuildNodes(par) ==
    LET tops == SortedSeq({j \in 1..Len(par) : par[j] = 0})
    IN  [i \in 1..Len(tops) |-> BuildNode(par, tops[i])]

TreeInputs ==
    {[par |-> par, nodes |-> BuildNodes(par)] :
        par \in UNION {ParentArrays(n) : n \in 0..MaxNodes}}

InitSubnodes == AtCall /\ fnIn \in TreeInputs

\* Line 201: getSubnodes(map.nodes).map(subnode => parseSubnode(subnode)).
CallGetSubnodes ==
    LET flat == getSubnodes(fnIn.nodes, mapsLookup)
    IN  Return([i \in 1..Len(flat) |-> parseSubnode(flat[i], mapsLookup)])

SpecSubnodes == InitSubnodes /\ [][CallGetSubnodes]_vars

\* C3: every subnode record's parent is the plain text of the node that
\* holds the subnode as a child.
C3_ParentIsImmediateContainer ==
    pc = "returned" =>
        \A j \in 1..Len(fnOut) :
            /\ fnIn.par[fnOut[j].fx] # 0
            /\ fnOut[j].parent = PlainText(fnIn.par[fnOut[j].fx])

\* C3 witness: a subnode of a subnode of a marked node, tagged with its own
\* container's text and not the grandparent's.
C3_Witness ==
    /\ pc = "returned"
    /\ \E j \in 1..Len(fnOut) :
          LET k == fnOut[j].fx
          IN  /\ fnIn.par[k] # 0
              /\ fnIn.par[fnIn.par[k]] # 0
              /\ fnIn.par[k] % 3 = 0
              /\ fnOut[j].parent = PlainText(fnIn.par[k])
              /\ fnOut[j].parent # PlainText(fnIn.par[fnIn.par[k]])

\* C4: the subnodes list is the pre-order listing of the nodes that are not
\* top-level: each exactly once, in the order of their pre-order numbers.
C4_SubnodesInPreOrder ==
    pc = "returned" =>
        [j \in 1..Len(fnOut) |-> fnOut[j].fx]
            = SortedSeq({k \in 1..Len(fnIn.par) : fnIn.par[k] # 0})

\* C4 witness: a top-level node with three children that each have a child,
\* flattened to six records.
C4_Witness ==
    /\ pc = "returned"
    /\ fnIn.par = <<0, 1, 2, 1, 4, 1, 6>>
    /\ Len(fnOut) = 6

(* parseNode *)

Grin == <<"D83D", "DE00">>

Robot == <<"D83E", "DD16">>

\* Nothing, recognized emoji, an emoji the table does not know, a lone surrogate.
Markers == {<<>>, Video, Globe, Robot, Grin, <<"D83D">>}

TitleTexts ==
    {a \o b \o c : a \in Markers, b \in {<<>>, <<"x">>, <<" ", "x", " ">>}, c \in Markers}

NodeInputs ==
    {RawNode("n", t, 1, 2, <<>>) : t \in {P(x) : x \in TitleTexts}}
        \cup {RawNode("n", Link(InternalURL(Token("a")), x), 3, 4, <<>>)
                  @@ [note |-> [text |-> P(Boilerplate \o <<"!">>)]] : x \in TitleTexts}

InitParseNode == AtCall /\ fnIn \in NodeInputs

CallParseNode == Return(parseNode(fnIn, mapsLookup))

SpecParseNode == InitParseNode /\ [][CallParseNode]_vars

\* Where the surrogate pairs of a text start.
EmojiStarts(t) ==
    {i \in 1..(Len(t) - 1) : t[i] \in HighSurrogate /\ t[i + 1] \in LowSurrogate}

FirstEmoji(t) == SubSeq(t, SetMin(EmojiStarts(t)), SetMin(EmojiStarts(t)) + 1)

RecognizedEmojis == {e \in HighSurrogate \X LowSurrogate : emojiToCategory(e) # ""}

\* C5 as stated: a category only for a text that carries a recognized emoji,
\* whose marker is then stripped; no category otherwise.
C5_CategoryOnlyIfRecognized ==
    pc = "returned" =>
        LET t == getText(fnIn.title.text)
            carried == \E i \in EmojiStarts(t) : SubSeq(t, i, i + 1) \in RecognizedEmojis
        IN  /\ "category" \in DOMAIN fnOut <=> carried
            /\ carried => fnOut.text = Trim(ReplaceEmojis(t))
            /\ ~carried => fnOut.text = t

\* C5 amended: a category field exactly when the text holds a surrogate-pair
\* emoji, recognized or not; it is the label of the first such emoji, '' for
\* one the table does not know, and every such emoji is stripped from the
\* text, which is trimmed.  A text without one is kept and has no category.
C5_CategoryIffEmoji ==
    pc = "returned" =>
        LET t == getText(fnIn.title.text)
        IN  IF EmojiStarts(t) # {}
            THEN /\ "category" \in DOMAIN fnOut
                 /\ fnOut.category = emojiToCategory(FirstEmoji(t))
                 /\ fnOut.text = Trim(ReplaceEmojis(t))
            ELSE /\ "category" \notin DOMAIN fnOut
                 /\ fnOut.text = t

\* C5 witness: a text whose only emoji is unknown to the table got the category ''.
C5_Witness ==
    /\ pc = "returned"
    /\ getText(fnIn.title.text) = Grin \o <<" ", "x", " ">>
    /\ "category" \in DOMAIN fnOut
    /\ fnOut.category = ""
    /\ fnOut.text = <<"x">>

(* parseConn *)

ConnTitles == {[text |-> <<>>], [text |-> P(<<"t">>)], [text |-> P(<<>>)]}

ConnInputs ==
    LET bare == {RawConn(a, b, x, y) : a \in {"n1", "n2", "n9"}, b \in {"n1", "n2", "n9"},
                                       x \in {0 - 1, 0, 2}, y \in {0, 3}}
    IN  bare \cup {c @@ [title |-> t] : c \in bare, t \in ConnTitles}

SampleLookup == Put(Put(<<>>, "n1", <<"x">>), "n2", <<"y">>)

InitParseConn == AtCall /\ fnIn \in ConnInputs

CallParseConn == Return(parseConn(fnIn, SampleLookup))

SpecParseConn == InitParseConn /\ [][CallParseConn]_vars

CurveCopied ==
    /\ fnOut.curve.x = fnIn.wayPointOffset.x
    /\ fnOut.curve.y = fnIn.wayPointOffset.y
    /\ DOMAIN fnOut.curve = {"x", "y"}

\* C6 as stated: the curve is the waypoint offset, and the record has a text
\* field exactly when the connection has a title.
C6_TextIffTitle ==
    pc = "returned" =>
        /\ CurveCopied
        /\ "text" \in DOMAIN fnOut <=> "title" \in DOMAIN fnIn

\* C6 amended: the curve is the waypoint offset, and the record has a text
\* field, the plain text of the title, exactly when the connection has a
\* title whose text is not empty.
C6_TextIffTitleText ==
    pc = "returned" =>
        /\ CurveCopied
        /\ "text" \in DOMAIN fnOut <=> ("title" \in DOMAIN fnIn /\ fnIn.title.text # <<>>)
        /\ "text" \in DOMAIN fnOut => fnOut.text = getText(fnIn.title.text)

\* C6 witness: a connection without a title gave a record without a text field.
C6_Witness ==
    /\ pc = "returned"
    /\ "title" \notin DOMAIN fnIn
    /\ "text" \notin DOMAIN fnOut
    /\ fnOut.curve = [x |-> 2, y |-> 3]

====
